---- MODULE Spec2Model ----
(***************************************************************************)
(* Model of nispat/hbr.py: the HBR class (hierarchical Bayesian            *)
(* regression).  One HBR object is modelled: its attributes, the model     *)
(* graph assembled by __init__, and the calls estimate() and predict().    *)
(* The inference engine (pymc3/theano) is a collaborator whose numerical   *)
(* results are not modelled; what is modelled of it is which inputs a      *)
(* graph reads, that a call into it may raise, and that elementwise        *)
(* expressions over vectors of different lengths raise.                    *)
(***************************************************************************)
EXTENDS Integers, Sequences, FiniteSets, TLC

\* ---------------------------------------------------------------- bounds
\* largest number of training subjects
MaxN == 2
\* largest number of new subjects in one predict() call
MaxM == 1
\* completed estimate() calls after which estimate() is no longer called
MaxEstimates == 2

AgeVals == {1, 2}
IdVals == {0, 1}
YVals == {7}

\* ------------------------------------------------------- pure helpers
Range(x) == {x[i] : i \in DOMAIN x}

np_unique(x) == Range(x)

\* np.expand_dims(x, axis=0): one row holding the whole vector
expand_dims_row(x) == <<x>>

\* np.expand_dims(x, axis=1): a column, one 1-vector per subject
expand_dims(x) == [i \in DOMAIN x |-> <<x[i]>>]

Variants == {"lin_rand_int", "lin_rand_int_slp", "lin_rand_int_slp_nse", "poly2", "nn"}

\* the tags a caller may pass: the five branches, the 'lin' label and a stray one
Tags == Variants \cup {"lin", "bogus"}

DefaultModelType == "lin"

\* the branch of the if/elif chain a tag selects ("else" raises)
BranchLinAccepted(model_type) ==
    IF model_type = "lin" THEN "lin_rand_int"
    ELSE IF model_type \in Variants THEN model_type ELSE "else"

Branch(model_type) == IF model_type \in Variants THEN model_type ELSE "else"

SiteNumLen(site_id) == Len(site_id)

SiteNum(site_id) == Cardinality(np_unique(site_id))

GenderNum(gender) == Cardinality(np_unique(gender))

\* the value bound to the shared age buffer: a column for the nn variant
SharedAge(age, model_type) == IF model_type = "nn" THEN expand_dims(age) ELSE age

n_hidden == 2
n_data == 1

Scalar == <<>>

HyperPriors ==
    [mu_prior_intercept |-> Scalar, sigma_prior_intercept |-> Scalar,
     mu_prior_slope |-> Scalar, sigma_prior_slope |-> Scalar]

\* declared free parameters (name -> shape) of each branch
ParamShapes(model_type, S, G) ==
    LET common == HyperPriors @@ [intercepts |-> <<S>>] IN
    CASE model_type = "lin_rand_int" ->
           common @@ [slopes |-> <<G>>, sigma_error |-> Scalar]
      [] model_type = "lin_rand_int_slp" ->
           common @@ [slopes |-> <<G, S>>, sigma_error |-> Scalar]
      [] model_type = "lin_rand_int_slp_nse" ->
           common @@ [slopes |-> <<G, S>>, sigma_error |-> <<G, S>>]
      [] model_type = "poly2" ->
           common @@ [slopes |-> <<G, S>>,
                      mu_prior_slope_2 |-> Scalar, sigma_prior_slope_2 |-> Scalar,
                      slopes_2 |-> <<G, S>>, sigma_error |-> <<G, S>>]
      [] model_type = "nn" ->
           common @@ [w_in_1_grp |-> <<n_data, n_hidden>>,
                      w_in_1_grp_sd |-> <<n_data, n_hidden>>,
                      w_1_out_grp |-> <<n_hidden>>,
                      w_1_out_grp_sd |-> <<n_hidden>>,
                      w_in_1 |-> <<G, S, n_data, n_hidden>>,
                      w_1_out |-> <<G, S, n_hidden>>,
                      sigma_error |-> <<G, S>>]

\* where the age occurrences of y_hat come from: the shared buffer self.a, or
\* the local array `age` captured as a constant when the graph was built
AgeBinding(model_type) == IF model_type = "nn" THEN "constant" ELSE "shared"

\* the graph stored as self.model
BuildGraph(model_type, age, y, S, G) ==
    [params    |-> ParamShapes(model_type, S, G),
     age_bound |-> AgeBinding(model_type),
     age_const |-> IF AgeBinding(model_type) = "constant"
                   THEN SharedAge(age, model_type) ELSE <<>>,
     observed  |-> y]

NoGraph == [params |-> <<>>, age_bound |-> "none", age_const |-> <<>>, observed |-> <<>>]

\* the covariates the likelihood's mean and noise scale read when evaluated
GraphInputs(m, aa, ss, gg) ==
    [age    |-> IF m.age_bound = "shared" THEN aa ELSE m.age_const,
     site   |-> ss,
     gender |-> gg]

\* elementwise expressions over vectors of different lengths raise in the engine
Conformable(in) == Len(in.age) = Len(in.site) /\ Len(in.site) = Len(in.gender)

\* every variant indexes its per-site and per-gender parameters by the ids;
\* an id outside the declared shape raises in the engine
InRange(in, S, G) ==
    /\ \A i \in DOMAIN in.site : in.site[i] \in 0..(S - 1)
    /\ \A i \in DOMAIN in.gender : in.gender[i] \in 0..(G - 1)

Chains == 2
Tune == 1000
Draws == 1000
PPCSamples == 1000

NoTrace == [id |-> 0, chains |-> 0, tune |-> 0, draws |-> 0]

SampleDefaultChains(id) == [id |-> id, chains |-> 4, tune |-> Tune, draws |-> Draws]

\* pm.sample(1000, tune=1000, chains=2)
Sample(id) == [id |-> id, chains |-> Chains, tune |-> Tune, draws |-> Draws]

TotalDraws(t) == t.chains * t.draws

NoInputs == [age |-> <<>>, site |-> <<>>, gender |-> <<>>]


\* ------------------------------------------------------------- inputs
Vectors(n, vals) == [1..n -> vals]

\* dense zero-based ids: the values present are exactly 0..k-1
Dense(n) == {x \in Vectors(n, IdVals) : Range(x) = 0..(Cardinality(Range(x)) - 1)}

\* a training call: four N-vectors for N subjects
TrainCalls ==
    UNION {[age : Vectors(n, AgeVals), site : Dense(n), gender : Dense(n),
            y : Vectors(n, YVals)] : n \in 1..MaxN}

\* the new subjects a prediction call may be about: (age, site id, gender id)
NewSubjects ==
    {[age |-> 2, site |-> 0, gender |-> 0],
     [age |-> 1, site |-> 1, gender |-> 1]}

\* a prediction call: three vectors, one entry per new subject
PredictCalls ==
    UNION {{[age    |-> [i \in 1..n |-> r[i].age],
             site   |-> [i \in 1..n |-> r[i].site],
             gender |-> [i \in 1..n |-> r[i].gender]] : r \in [1..n -> NewSubjects]}
           : n \in 1..MaxM}

\* -------------------------------------------------------------- state
VARIABLES
    pc,          \* "new": not constructed, "ready": constructed, "failed": __init__ raised
    attrs,       \* names of the attributes set on the object
    model_type,  \* self.model_type
    site_num,    \* self.site_num
    gender_num,  \* self.gender_num
    a, s, g,     \* values of the shared buffers self.a, self.s, self.g
    model,       \* self.model
    trace,       \* self.trace
    ret,         \* outcome of the most recent call
    completed,   \* number of estimate() calls that completed
    given,       \* covariates of the training call, then of the most recent predict() call
    train,       \* the arguments of the constructor call
    nargs        \* number of arguments the constructor was called with

vars == <<pc, attrs, model_type, site_num, gender_num, a, s, g, model, trace, ret,
          completed, given, train, nargs>>

NoRet == [op |-> "none", outcome |-> "none", error |-> "", trace |-> NoTrace,
          pair |-> FALSE, evaluated |-> FALSE, ppc |-> NoInputs]

Init ==
    /\ pc = "new"
    /\ attrs = {}
    /\ model_type = ""
    /\ site_num = 0
    /\ gender_num = 0
    /\ a = <<>>
    /\ s = <<>>
    /\ g = <<>>
    /\ model = NoGraph
    /\ trace = NoTrace
    /\ ret = NoRet
    /\ completed = 0
    /\ given = [src |-> "none", age |-> <<>>, site |-> <<>>, gender |-> <<>>]
    /\ train = [age |-> <<>>, site |-> <<>>, gender |-> <<>>, y |-> <<>>]
    /\ nargs = 0

\* ----------------------------------------------------------- __init__
Construct(c, mt, n) ==
    /\ pc = "new"
    /\ nargs' = n
    /\ train' = c
    /\ given' = [src |-> "train", age |-> c.age, site |-> c.site, gender |-> c.gender]
    /\ site_num' = SiteNum(c.site)
    /\ gender_num' = GenderNum(c.gender)
    /\ model_type' = mt
    /\ a' = SharedAge(c.age, mt)
    /\ s' = c.site
    /\ g' = c.gender
    /\ UNCHANGED <<trace, completed>>
    /\ IF Branch(mt) = "else"
       THEN /\ pc' = "failed"
            /\ attrs' = {"site_num", "gender_num", "model_type", "a", "s", "g"}
            /\ model' = model
            /\ ret' = [NoRet EXCEPT !.op = "init", !.outcome = "raised",
                                    !.error = "ValueError"]
       ELSE /\ pc' = "ready"
            /\ attrs' = {"site_num", "gender_num", "model_type", "a", "s", "g", "model"}
            /\ model' = BuildGraph(Branch(mt), c.age, c.y, site_num', gender_num')
            /\ ret' = [NoRet EXCEPT !.op = "init", !.outcome = "returned"]

\* HBR(age, site_id, gender, y, model_type)
ConstructTagged ==
    /\ pc = "new"
    /\ \E c \in TrainCalls, mt \in Tags : Construct(c, mt, 5)

\* HBR(age, site_id, gender, y)
ConstructDefault ==
    /\ pc = "new"
    /\ \E c \in TrainCalls : Construct(c, DefaultModelType, 4)

\* ----------------------------------------------------------- estimate
EstimateOutcomes(conformable) ==
    IF conformable THEN {"returned", "EngineError"} ELSE {"EngineError"}

Estimate ==
    /\ pc = "ready"
    /\ completed < MaxEstimates
    /\ LET in == GraphInputs(model, a, s, g)
           ok == /\ Conformable(in)
                 /\ InRange(in, site_num, gender_num)
                 /\ Len(in.site) = Len(model.observed)
       IN \E o \in EstimateOutcomes(ok) :
            IF o = "returned"
            THEN /\ trace' = Sample(completed + 1)
                 /\ attrs' = attrs \cup {"trace"}
                 /\ completed' = completed + 1
                 /\ ret' = [NoRet EXCEPT !.op = "estimate", !.outcome = "returned",
                                         !.trace = trace']
            ELSE /\ UNCHANGED <<trace, attrs, completed>>
                 /\ ret' = [NoRet EXCEPT !.op = "estimate", !.outcome = "raised",
                                         !.error = o]
    /\ UNCHANGED <<pc, model_type, site_num, gender_num, a, s, g, model, given, train,
                   nargs>>

\* ------------------------------------------------------------ predict
\* a row of temp has nchains * samples columns and receives one value per draw
GroupMeanRowFits(t) == t.chains * PPCSamples = TotalDraws(t)

PredictOutcomesNoCheck(has_trace, conformable, fits, mt) ==
    IF ~conformable THEN {"EngineError"}
    ELSE {"EngineError"}
         \cup (IF fits THEN {"returned"} ELSE {"GroupMeanError"})
         \cup (IF mt = "nn" THEN {"GroupMeanError"} ELSE {})

\* self.trace is read only as the argument of sample_posterior_predictive; the
\* group-mean loop of the nn variant assigns a symbolic tensor into a numpy row
PredictOutcomes(has_trace, conformable, fits, mt) ==
    IF ~has_trace THEN {"AttributeError"}
    ELSE IF ~conformable THEN {"EngineError"}
    ELSE {"EngineError"}
         \cup (IF fits THEN {"returned"} ELSE {"GroupMeanError"})
         \cup (IF mt = "nn" THEN {"GroupMeanError"} ELSE {})

BuffersAfterPredictTraceFirst(c, has_trace, mt, aa, ss, gg) ==
    IF has_trace
    THEN [a |-> SharedAge(c.age, mt), s |-> c.site, g |-> c.gender]
    ELSE [a |-> aa, s |-> ss, g |-> gg]

\* the three set_value calls, which precede the read of self.trace
BuffersAfterPredict(c, has_trace, mt, aa, ss, gg) ==
    [a |-> SharedAge(c.age, mt), s |-> c.site, g |-> c.gender]

TraceAfterPredictCleared(t) == NoTrace

TraceAfterPredict(t) == t

Predict(c) ==
    /\ pc = "ready"
    /\ LET b == BuffersAfterPredict(c, "trace" \in attrs, model_type, a, s, g)
           in == GraphInputs(model, b.a, b.s, b.g)
       IN /\ a' = b.a
          /\ s' = b.s
          /\ g' = b.g
          /\ \E o \in PredictOutcomes("trace" \in attrs,
                                     Conformable(in) /\ InRange(in, site_num, gender_num),
                                     GroupMeanRowFits(trace), model_type) :
               ret' = [NoRet EXCEPT !.op = "predict",
                         !.outcome = IF o = "returned" THEN "returned" ELSE "raised",
                         !.error = IF o = "returned" THEN "" ELSE o,
                         !.pair = (o = "returned"),
                         !.evaluated = (o \in {"returned", "GroupMeanError"}),
                         !.ppc = IF o \in {"returned", "GroupMeanError"} THEN in
                                 ELSE NoInputs]
    /\ given' = [src |-> "predict", age |-> c.age, site |-> c.site, gender |-> c.gender]
    /\ trace' = TraceAfterPredict(trace)
    /\ UNCHANGED <<pc, attrs, model_type, site_num, gender_num, model, completed, train,
                   nargs>>

PredictCall ==
    /\ pc = "ready"
    /\ \E c \in PredictCalls : Predict(c)

Next == ConstructTagged \/ ConstructDefault \/ Estimate \/ PredictCall

Spec == Init /\ [][Next]_vars


\* ------------------------------------------------------------- claims
ImplementedTags ==
    {"lin_rand_int", "lin_rand_int_slp", "lin_rand_int_slp_nse", "poly2", "nn"}

\* C1: a constructor call whose tag is none of the five implemented ones ('lin'
\* included) raises the unknown-model error; nothing has been sampled, no model
\* graph and no trace is stored, and no later call has run on the object.
C1_UnknownTagFails ==
    (pc # "new" /\ model_type \notin ImplementedTags) =>
        /\ pc = "failed"
        /\ ret.op = "init" /\ ret.outcome = "raised" /\ ret.error = "ValueError"
        /\ "model" \notin attrs /\ model = NoGraph
        /\ "trace" \notin attrs /\ trace = NoTrace /\ completed = 0

C1_Witness == pc = "failed" /\ model_type = "lin" /\ nargs = 5

\* C2: the documented basic usage, HBR(age, site_id, gender, y) with model_type
\* left at its default, constructs a usable model.
C2_BasicUsageConstructs == (pc # "new" /\ nargs = 4) => pc = "ready"

\* C3: predict() with no trace attached raises and returns no pair; a predict()
\* that returns is preceded by a completed estimate().
C3_PredictNeedsTrace ==
    /\ (ret.op = "predict" /\ "trace" \notin attrs) =>
           (ret.outcome = "raised" /\ ~ret.pair /\ ~ret.evaluated)
    /\ (ret.op = "predict" /\ ret.outcome = "returned") =>
           (completed >= 1 /\ "trace" \in attrs)

C3_Witness ==
    /\ ret.op = "predict" /\ "trace" \notin attrs /\ completed = 0
    /\ ret.outcome = "raised" /\ ret.error = "AttributeError"

\* C4: whenever predict() evaluates the likelihood, it is evaluated on the age,
\* site and gender covariates given to that call, for every variant.
C4_PredictReadsNewCovariates ==
    (ret.op = "predict" /\ ret.evaluated) =>
        /\ ret.ppc.age = (IF model_type = "nn"
                          THEN [i \in DOMAIN given.age |-> <<given.age[i]>>]
                          ELSE given.age)
        /\ ret.ppc.site = given.site
        /\ ret.ppc.gender = given.gender

\* C5 (as claimed): in every state of a constructed model the three buffers and
\* the observed outcome all have the same length N.
C5_AllLengthN ==
    pc = "ready" =>
        /\ Len(model.observed) = Len(train.y)
        /\ Len(a) = Len(train.y) /\ Len(s) = Len(train.y) /\ Len(g) = Len(train.y)

\* C5 (amended): the observed outcome always has length N; the three buffers
\* have length N until the first predict() and from then on the lengths of the
\* covariates given to the most recent predict().
C5_LengthsFollowLatestCall ==
    pc = "ready" =>
        /\ Len(model.observed) = Len(train.y)
        /\ given.src = "train" =>
               (Len(a) = Len(train.y) /\ Len(s) = Len(train.y) /\ Len(g) = Len(train.y))
        /\ Len(a) = Len(given.age) /\ Len(s) = Len(given.site)
        /\ Len(g) = Len(given.gender)

C5_Witness ==
    /\ pc = "ready" /\ given.src = "predict"
    /\ Len(a) # Len(train.y) /\ Len(model.observed) = Len(train.y)

C7_TraceIsLatestEstimate ==
    /\ ("trace" \in attrs) <=> (completed >= 1)
    /\ ("trace" \in attrs) =>
           /\ trace.id = completed
           /\ trace.chains = 2 /\ trace.tune = 1000 /\ trace.draws = 1000
           /\ trace.chains * trace.draws = 2000
    /\ (ret.op = "estimate" /\ ret.outcome = "returned") => ret.trace = trace

C7_Witness ==
    /\ ret.op = "estimate" /\ ret.outcome = "returned"
    /\ completed = 2 /\ trace.id = 2

\* C8: a predict() step leaves the trace unchanged, only an estimate() step
\* changes the trace, and no step changes the variant of a constructed model.
C8_PredictKeepsTrace ==
    [][/\ (ret'.op = "predict") => (trace' = trace /\ attrs' = attrs)
       /\ (trace' # trace) => (ret'.op = "estimate")
       /\ (pc = "ready") => (model_type' = model_type)]_vars

C8_Witness ==
    /\ ret.op = "predict" /\ ret.outcome = "returned"
    /\ completed >= 1 /\ trace = Sample(completed)
    /\ given.age # train.age

\* C10: every implemented tag constructs, and the declared shapes are: intercepts
\* (S); slopes (G) for lin_rand_int and (G,S) for lin_rand_int_slp,
\* lin_rand_int_slp_nse and poly2; slopes_2 (G,S) for poly2 only; sigma_error a
\* scalar for lin_rand_int and lin_rand_int_slp and (G,S) for the other three.
C10_DeclaredShapes ==
    (pc # "new" /\ model_type \in ImplementedTags) =>
        /\ pc = "ready"
        /\ LET S == Cardinality({train.site[i] : i \in DOMAIN train.site})
               G == Cardinality({train.gender[i] : i \in DOMAIN train.gender})
               p == model.params
           IN /\ S >= 1 /\ G >= 1
              /\ p.intercepts = <<S>>
              /\ (model_type = "lin_rand_int") => p.slopes = <<G>>
              /\ (model_type \in {"lin_rand_int_slp", "lin_rand_int_slp_nse", "poly2"})
                     => p.slopes = <<G, S>>
              /\ ("slopes_2" \in DOMAIN p) <=> (model_type = "poly2")
              /\ (model_type = "poly2") => p.slopes_2 = <<G, S>>
              /\ (model_type \in {"lin_rand_int", "lin_rand_int_slp"})
                     => p.sigma_error = <<>>
              /\ (model_type \in {"lin_rand_int_slp_nse", "poly2", "nn"})
                     => p.sigma_error = <<G, S>>

C10_Witness ==
    /\ pc = "ready" /\ model_type = "poly2"
    /\ site_num = 1 /\ gender_num = 2 /\ Len(train.site) = 2
    /\ model.params.slopes_2 = <<2, 1>>

====
